---------------------------- MODULE Spec2Model ----------------------------
(***************************************************************************)
(* Model of markdown2html.py: the four line-rewriting stages (heading,     *)
(* unordered list, ordered list, paragraph) and the main() that chains     *)
(* them between a read of the source file and a write of the destination.  *)
(*                                                                         *)
(* A text line is a sequence of one-character strings, so that prefix      *)
(* tests, slicing, strip() and replace() are computed character by         *)
(* character as Python computes them.                                      *)
(*                                                                         *)
(* Two specifications:                                                     *)
(*   Spec       one run of main(), statement by statement;                 *)
(*   SpecStage  one call of one stage function on an arbitrary list of     *)
(*              lines, one loop iteration per step.                        *)
(* Environment assumption of Spec: the file system does not change under   *)
(* the run and an existing source is readable, the destination writable    *)
(* (section 7 of the specification leaves other I/O failures unhandled).   *)
(***************************************************************************)
EXTENDS Integers, Sequences, FiniteSets, TLC

VARIABLES
    \* ---- main() ----
    pc,              \* position in main()
    sys_argv,        \* sys.argv: script name followed by the positional arguments
    fs,              \* file system: path -> [exists, data], data a character sequence
    markdown_file,   \* sys.argv[1]
    html_file,       \* sys.argv[2]
    converted_lines, \* main's converted_lines
    stderr,          \* messages printed to the error stream, in order
    status,          \* exit status, NoStatus while running
    ran,             \* history: one record per stage call that returned, in order
    opened,          \* history: one <<path, mode>> per open() call, in order
    \* ---- one stage call (SpecStage); `lines` is also main's `lines` ----
    lines,           \* the list of lines (main: as read; stage: the argument)
    stage,           \* which stage function is being called
    spc,             \* position in the stage function: "loop", "returned"
    idx,             \* number of lines the for loop has consumed
    in_list,         \* in_list of the list stages
    in_paragraph,    \* in_paragraph of the paragraph stage
    html_lines,      \* output buffer (converted_lines in the heading stage)
    raised,          \* the call ended in an uncaught IndexError
    origin           \* history, parallel to html_lines: what emitted each line

mainVars == <<pc, sys_argv, fs, markdown_file, html_file, converted_lines,
              stderr, status, ran, opened>>
stageVars ==
    <<stage, spc, idx, in_list, in_paragraph, html_lines, raised, origin>>
vars == <<mainVars, lines, stageVars>>

---------------------------------------------------------------------------
(* Bounds of the model *)

\* longest input list made of CoreLines
MaxLines == 3
\* longest input list made of AllLines
MaxShort == 2
\* longest run of leading '#' among the input lines
MaxHashes == 7
\* largest number of positional arguments
MaxArgs == 3

---------------------------------------------------------------------------
(* Python string primitives, on sequences of characters *)

\* str.strip() with no argument strips these (the ASCII ones that can occur here)
Whitespace == {" ", "\t", "\n", "\r", "\f"}

\* s.startswith(p)
startswith(s, p) == Len(s) >= Len(p) /\ SubSeq(s, 1, Len(p)) = p

\* s.startswith((p1, p2, ...)): true when any prefix of the tuple matches
startswith_any(s, ps) == \E k \in 1..Len(ps) : startswith(s, ps[k])

\* s[n:] for n >= 0
SliceFrom(s, n) == SubSeq(s, n + 1, Len(s))

RECURSIVE lstrip(_)
lstrip(s) ==
    IF s # <<>> /\ Head(s) \in Whitespace THEN lstrip(Tail(s)) ELSE s

RECURSIVE rstrip(_)
rstrip(s) ==
    IF s # <<>> /\ s[Len(s)] \in Whitespace
    THEN rstrip(SubSeq(s, 1, Len(s) - 1))
    ELSE s

\* s.strip()
strip(s) == rstrip(lstrip(s))

\* s.replace(old, new): every non-overlapping occurrence, scanning left to right
RECURSIVE replace(_, _, _)
replace(s, old, new) ==
    IF Len(s) < Len(old) THEN s
    ELSE IF startswith(s, old)
         THEN new \o replace(SliceFrom(s, Len(old)), old, new)
         ELSE <<Head(s)>> \o replace(Tail(s), old, new)

\* "#" * i
Hashes(i) == [k \in 1..i |-> "#"]

\* str(i) inside the f-string, for a one-digit i
DigitChar(i) ==
    CASE i = 0 -> "0" [] i = 1 -> "1" [] i = 2 -> "2" [] i = 3 -> "3"
      [] i = 4 -> "4" [] i = 5 -> "5" [] i = 6 -> "6" [] i = 7 -> "7"
      [] i = 8 -> "8" [] i = 9 -> "9"

---------------------------------------------------------------------------
(* The literal lines and f-strings of the stages *)

BR_NL == <<"<", "b", "r", "/", ">", "\n">>
NL == <<"\n">>
UL_OPEN == <<"<", "u", "l", ">", "\n">>
UL_CLOSE == <<"<", "/", "u", "l", ">", "\n">>
OL_OPEN == <<"<", "o", "l", ">", "\n">>
OL_CLOSE == <<"<", "/", "o", "l", ">", "\n">>
P_OPEN == <<"<", "p", ">", "\n">>
P_CLOSE == <<"<", "/", "p", ">", "\n">>

\* f"<h{i}>{content}</h{i}>\n"
HeadingElement(i, content) ==
    <<"<", "h", DigitChar(i), ">">> \o content
        \o <<"<", "/", "h", DigitChar(i), ">", "\n">>

\* f"   <li>{line_content}</li>\n"
ListItem(line_content) ==
    <<" ", " ", " ", "<", "l", "i", ">">> \o line_content
        \o <<"<", "/", "l", "i", ">", "\n">>

\* f"    {stripped_line}<br/>\n"
ParagraphLine(stripped_line) ==
    <<" ", " ", " ", " ">> \o stripped_line \o BR_NL

\* what emitted an output line: kind, and the index of the input line it carries
\* (0 for a container marker)
Org(kind, src) == [kind |-> kind, src |-> src]

---------------------------------------------------------------------------
(* convert_markdown_heading_to_html *)

\* the highest heading level
MaxLevel == 6

\* range(6, 0, -1)
LevelOrder == [k \in 1..MaxLevel |-> MaxLevel + 1 - k]

\* variant of HeadingTest that forgets the separator after the '#' run
HeadingTest_NoSeparator(line, i) == startswith(line, Hashes(i))

\* the test of the inner loop for level i
HeadingTest(line, i) == startswith(line, Hashes(i) \o <<" ">>)

\* the inner for loop over the levels in `order`: the level whose test passes
\* first, 0 when the loop runs out
RECURSIVE HeadingLevel(_, _)
HeadingLevel(line, order) ==
    IF order = <<>> THEN 0
    ELSE IF HeadingTest(line, Head(order)) THEN Head(order)
         ELSE HeadingLevel(line, Tail(order))

\* variant of HeadingLine that normalises the terminator of every line
HeadingLine_NormalisesTerminator(line) ==
    LET i == HeadingLevel(line, LevelOrder)
    IN  IF i = 0 THEN rstrip(line) \o <<"\n">>
        ELSE HeadingElement(i, strip(SliceFrom(line, i + 1)))

\* the value of `line` when it is appended
HeadingLine(line) ==
    LET i == HeadingLevel(line, LevelOrder)
    IN  IF i = 0 THEN line
        ELSE HeadingElement(i, strip(SliceFrom(line, i + 1)))

HeadingInit == [html_lines |-> <<>>, origin |-> <<>>]

\* one iteration of the outer loop, on line number j
HeadingBody(st, line, j) ==
    [html_lines |-> Append(st.html_lines, HeadingLine(line)),
     origin |-> Append(st.origin,
                  Org(IF HeadingLevel(line, LevelOrder) = 0
                      THEN "pass" ELSE "heading", j))]

RECURSIVE HeadingLoop(_, _)
HeadingLoop(ls, k) ==
    IF k = 0 THEN HeadingInit
    ELSE HeadingBody(HeadingLoop(ls, k - 1), ls[k], k)

HeadingRun(ls) == HeadingLoop(ls, Len(ls))

convert_markdown_heading_to_html(ls) == HeadingRun(ls).html_lines

---------------------------------------------------------------------------
(* convert_markdown_ul_list_to_html *)

UlInit == [in_list |-> FALSE, html_lines |-> <<>>, origin |-> <<>>]

\* p occurs in s
contains(s, p) ==
    \E k \in 1..(Len(s) - Len(p) + 1) : SubSeq(s, k, k + Len(p) - 1) = p

\* variant of UlBody that looks for the marker anywhere in the line
UlBody_MarkerAnywhere(st, line, j) ==
    IF contains(line, <<"-", " ">>)
    THEN LET line_content == strip(SliceFrom(line, 2))
             opened_ == IF ~st.in_list
                        THEN [st EXCEPT
                                !.html_lines = Append(@, UL_OPEN),
                                !.origin = Append(@, Org("open", 0)),
                                !.in_list = TRUE]
                        ELSE st
         IN  [opened_ EXCEPT
                !.html_lines = Append(@, ListItem(line_content)),
                !.origin = Append(@, Org("item", j))]
    ELSE LET closed == IF st.in_list
                       THEN [st EXCEPT
                               !.html_lines = Append(@, UL_CLOSE),
                               !.origin = Append(@, Org("close", 0)),
                               !.in_list = FALSE]
                       ELSE st
         IN  [closed EXCEPT
                !.html_lines = Append(@, line),
                !.origin = Append(@, Org("pass", j))]

\* variant of UlBody that opens a list without setting in_list
UlBody_FlagNotSet(st, line, j) ==
    IF startswith(line, <<"-", " ">>)
    THEN LET line_content == strip(SliceFrom(line, 2))
             opened_ == IF ~st.in_list
                        THEN [st EXCEPT
                                !.html_lines = Append(@, UL_OPEN),
                                !.origin = Append(@, Org("open", 0))]
                        ELSE st
         IN  [opened_ EXCEPT
                !.html_lines = Append(@, ListItem(line_content)),
                !.origin = Append(@, Org("item", j))]
    ELSE LET closed == IF st.in_list
                       THEN [st EXCEPT
                               !.html_lines = Append(@, UL_CLOSE),
                               !.origin = Append(@, Org("close", 0)),
                               !.in_list = FALSE]
                       ELSE st
         IN  [closed EXCEPT
                !.html_lines = Append(@, line),
                !.origin = Append(@, Org("pass", j))]

\* one iteration of the for loop, on line number j
UlBody(st, line, j) ==
    IF startswith(line, <<"-", " ">>)
    THEN LET line_content == strip(SliceFrom(line, 2))
             opened_ == IF ~st.in_list
                        THEN [st EXCEPT
                                !.html_lines = Append(@, UL_OPEN),
                                !.origin = Append(@, Org("open", 0)),
                                !.in_list = TRUE]
                        ELSE st
         IN  [opened_ EXCEPT
                !.html_lines = Append(@, ListItem(line_content)),
                !.origin = Append(@, Org("item", j))]
    ELSE LET closed == IF st.in_list
                       THEN [st EXCEPT
                               !.html_lines = Append(@, UL_CLOSE),
                               !.origin = Append(@, Org("close", 0)),
                               !.in_list = FALSE]
                       ELSE st
         IN  [closed EXCEPT
                !.html_lines = Append(@, line),
                !.origin = Append(@, Org("pass", j))]

\* variant of UlEnd that leaves a list open at the end of the input
UlEnd_NoClose(st) == st

\* after the loop
UlEnd(st) ==
    IF st.in_list
    THEN [st EXCEPT !.html_lines = Append(@, UL_CLOSE),
                    !.origin = Append(@, Org("close", 0))]
    ELSE st

RECURSIVE UlLoop(_, _)
UlLoop(ls, k) ==
    IF k = 0 THEN UlInit ELSE UlBody(UlLoop(ls, k - 1), ls[k], k)

UlRun(ls) == UlEnd(UlLoop(ls, Len(ls)))

convert_markdown_ul_list_to_html(ls) == UlRun(ls).html_lines

---------------------------------------------------------------------------
(* convert_markdown_ol_list_to_html *)

OlInit == [in_list |-> FALSE, html_lines |-> <<>>, origin |-> <<>>]

\* variant of OlBody that looks for the marker anywhere in the line
OlBody_MarkerAnywhere(st, line, j) ==
    IF contains(line, <<"*", " ">>)
    THEN LET line_content == strip(SliceFrom(line, 2))
             opened_ == IF ~st.in_list
                        THEN [st EXCEPT
                                !.html_lines = Append(@, OL_OPEN),
                                !.origin = Append(@, Org("open", 0)),
                                !.in_list = TRUE]
                        ELSE st
         IN  [opened_ EXCEPT
                !.html_lines = Append(@, ListItem(line_content)),
                !.origin = Append(@, Org("item", j))]
    ELSE LET closed == IF st.in_list
                       THEN [st EXCEPT
                               !.html_lines = Append(@, OL_CLOSE),
                               !.origin = Append(@, Org("close", 0)),
                               !.in_list = FALSE]
                       ELSE st
         IN  [closed EXCEPT
                !.html_lines = Append(@, line),
                !.origin = Append(@, Org("pass", j))]

\* variant of OlBody that does not clear in_list when it closes the list
OlBody_FlagNotCleared(st, line, j) ==
    IF startswith(line, <<"*", " ">>)
    THEN LET line_content == strip(SliceFrom(line, 2))
             opened_ == IF ~st.in_list
                        THEN [st EXCEPT
                                !.html_lines = Append(@, OL_OPEN),
                                !.origin = Append(@, Org("open", 0)),
                                !.in_list = TRUE]
                        ELSE st
         IN  [opened_ EXCEPT
                !.html_lines = Append(@, ListItem(line_content)),
                !.origin = Append(@, Org("item", j))]
    ELSE LET closed == IF st.in_list
                       THEN [st EXCEPT
                               !.html_lines = Append(@, OL_CLOSE),
                               !.origin = Append(@, Org("close", 0))]
                       ELSE st
         IN  [closed EXCEPT
                !.html_lines = Append(@, line),
                !.origin = Append(@, Org("pass", j))]

\* one iteration of the for loop, on line number j
OlBody(st, line, j) ==
    IF startswith(line, <<"*", " ">>)
    THEN LET line_content == strip(SliceFrom(line, 2))
             opened_ == IF ~st.in_list
                        THEN [st EXCEPT
                                !.html_lines = Append(@, OL_OPEN),
                                !.origin = Append(@, Org("open", 0)),
                                !.in_list = TRUE]
                        ELSE st
         IN  [opened_ EXCEPT
                !.html_lines = Append(@, ListItem(line_content)),
                !.origin = Append(@, Org("item", j))]
    ELSE LET closed == IF st.in_list
                       THEN [st EXCEPT
                               !.html_lines = Append(@, OL_CLOSE),
                               !.origin = Append(@, Org("close", 0)),
                               !.in_list = FALSE]
                       ELSE st
         IN  [closed EXCEPT
                !.html_lines = Append(@, line),
                !.origin = Append(@, Org("pass", j))]

\* variant of OlEnd that leaves a list open at the end of the input
OlEnd_NoClose(st) == st

\* after the loop
OlEnd(st) ==
    IF st.in_list
    THEN [st EXCEPT !.html_lines = Append(@, OL_CLOSE),
                    !.origin = Append(@, Org("close", 0))]
    ELSE st

RECURSIVE OlLoop(_, _)
OlLoop(ls, k) ==
    IF k = 0 THEN OlInit ELSE OlBody(OlLoop(ls, k - 1), ls[k], k)

OlRun(ls) == OlEnd(OlLoop(ls, Len(ls)))

convert_markdown_ol_list_to_html(ls) == OlRun(ls).html_lines

---------------------------------------------------------------------------
(* convert_markdown_paragraph_to_html *)

\* raised: html_lines[-1] was evaluated on an empty list (IndexError)
ParaInit ==
    [in_paragraph |-> FALSE, html_lines |-> <<>>, origin |-> <<>>,
     raised |-> FALSE]

\* variant of IsPlain that forgets the '*' marker
IsPlain_ForgetsStar(stripped_line) ==
    /\ stripped_line # <<>>
    /\ ~startswith_any(stripped_line, << <<"#">>, <<"-">> >>)

\* variant of IsPlain that also keeps tag lines out of paragraphs
IsPlain_SkipsTags(stripped_line) ==
    /\ stripped_line # <<>>
    /\ ~startswith_any(stripped_line, << <<"#">>, <<"-">>, <<"*">>, <<"<">> >>)

\* variant of IsPlain that keeps the paragraph markers out of paragraphs
IsPlain_SkipsParagraphMarkers(stripped_line) ==
    /\ stripped_line # <<>>
    /\ ~startswith_any(stripped_line, << <<"#">>, <<"-">>, <<"*">> >>)
    /\ stripped_line \notin {<<"<", "p", ">">>, <<"<", "/", "p", ">">>}

\* the condition of the if: stripped_line is non-empty and starts with none of
\* "#", "-", "*"
IsPlain(stripped_line) ==
    /\ stripped_line # <<>>
    /\ ~startswith_any(stripped_line, << <<"#">>, <<"-">>, <<"*">> >>)

\* variant of ParaClose that leaves the soft break on the last line
ParaClose_KeepsBreak(st) ==
    [st EXCEPT !.html_lines = Append(@, P_CLOSE),
               !.origin = Append(@, Org("close", 0)),
               !.in_paragraph = FALSE]

\* html_lines[-1] = html_lines[-1].replace("<br/>\n", "\n"); append("</p>\n");
\* in_paragraph = False.  html_lines[-1] of an empty list raises IndexError,
\* which ends the call: the state is left as it is, with raised set.
ParaClose(st) ==
    LET n == Len(st.html_lines)
    IN  IF n = 0 THEN [st EXCEPT !.raised = TRUE]
        ELSE [st EXCEPT
                !.html_lines =
                    Append([@ EXCEPT ![n] = replace(@, BR_NL, NL)], P_CLOSE),
                !.origin = Append(@, Org("close", 0)),
                !.in_paragraph = FALSE]

\* variant of ParaBody that emits a non-plain line before closing the paragraph
ParaBody_PassBeforeClose(st, line, j) ==
    LET stripped_line == strip(line)
    IN  IF IsPlain(stripped_line)
        THEN LET opened_ == IF ~st.in_paragraph
                            THEN [st EXCEPT
                                    !.html_lines = Append(@, P_OPEN),
                                    !.origin = Append(@, Org("open", 0)),
                                    !.in_paragraph = TRUE]
                            ELSE st
             IN  [opened_ EXCEPT
                    !.html_lines = Append(@, ParagraphLine(stripped_line)),
                    !.origin = Append(@, Org("content", j))]
        ELSE LET passed == [st EXCEPT
                              !.html_lines = Append(@, line),
                              !.origin = Append(@, Org("pass", j))]
             IN  IF st.in_paragraph THEN ParaClose(passed) ELSE passed

\* one iteration of the for loop, on line number j
ParaBody(st, line, j) ==
    LET stripped_line == strip(line)
    IN  IF IsPlain(stripped_line)
        THEN LET opened_ == IF ~st.in_paragraph
                            THEN [st EXCEPT
                                    !.html_lines = Append(@, P_OPEN),
                                    !.origin = Append(@, Org("open", 0)),
                                    !.in_paragraph = TRUE]
                            ELSE st
             IN  [opened_ EXCEPT
                    !.html_lines = Append(@, ParagraphLine(stripped_line)),
                    !.origin = Append(@, Org("content", j))]
        ELSE LET closed == IF st.in_paragraph THEN ParaClose(st) ELSE st
             IN  IF closed.raised THEN closed
                 ELSE [closed EXCEPT
                         !.html_lines = Append(@, line),
                         !.origin = Append(@, Org("pass", j))]

\* after the loop: the same strip and close, but in_paragraph is not assigned
ParaEnd(st) ==
    IF st.in_paragraph
    THEN LET closed == ParaClose(st)
         IN  [closed EXCEPT !.in_paragraph = st.in_paragraph]
    ELSE st

RECURSIVE ParaLoop(_, _)
ParaLoop(ls, k) ==
    IF k = 0 THEN ParaInit
    ELSE LET st == ParaLoop(ls, k - 1)
         IN  IF st.raised THEN st ELSE ParaBody(st, ls[k], k)

ParaRun(ls) ==
    LET st == ParaLoop(ls, Len(ls)) IN IF st.raised THEN st ELSE ParaEnd(st)

convert_markdown_paragraph_to_html(ls) == ParaRun(ls).html_lines

---------------------------------------------------------------------------
(* The inputs the model draws from *)

\* sequences over S of length at most n
SeqsUpTo(S, n) == UNION {[1..k -> S] : k \in 0..n}

\* lines that exercise the grouping stages: "- a\n", "* a\n", "\n", "a\n",
\* " a" (no terminator), "a<br/>\n", "-a\n", "# a \n"
CoreLines ==
    { <<"-", " ", "a", "\n">>,
      <<"*", " ", "a", "\n">>,
      <<"\n">>,
      <<"a", "\n">>,
      <<" ", "a">>,
      <<"a", "<", "b", "r", "/", ">", "\n">>,
      <<"-", "a", "\n">>,
      <<"#", " ", "a", " ", "\n">> }

\* lines that exercise the per-line tests: 1..MaxHashes '#' then " a\n", and
\* "#a\n", "#\ta\n", "- * a\n", "* - a\n", "  - a\n", " \n", "- \n", ""
ExtraLines ==
    { Hashes(n) \o <<" ", "a", "\n">> : n \in 1..MaxHashes }
    \cup
    { <<"#", "a", "\n">>,
      <<"#", "\t", "a", "\n">>,
      <<"-", " ", "*", " ", "a", "\n">>,
      <<"*", " ", "-", " ", "a", "\n">>,
      <<" ", " ", "-", " ", "a", "\n">>,
      <<" ", "\n">>,
      <<"-", " ", "\n">>,
      <<>> }

AllLines == CoreLines \cup ExtraLines

\* the lists of lines a stage function is called with
Inputs == SeqsUpTo(CoreLines, MaxLines) \cup SeqsUpTo(AllLines, MaxShort)

---------------------------------------------------------------------------
(* SpecStage: one call of one stage function, one loop iteration per step *)

Stages == {"heading", "ul", "ol", "paragraph"}

NoStatus == -1

\* main() does not run in SpecStage
MainIdle ==
    /\ pc = "idle"
    /\ sys_argv = <<>>
    /\ fs = <<>>
    /\ markdown_file = ""
    /\ html_file = ""
    /\ converted_lines = <<>>
    /\ stderr = <<>>
    /\ status = NoStatus
    /\ ran = <<>>
    /\ opened = <<>>

\* the state on entry of the function: in_list / in_paragraph = False, empty buffer
InitStage ==
    /\ MainIdle
    /\ stage \in Stages
    /\ lines \in Inputs
    /\ spc = "loop"
    /\ idx = 0
    /\ in_list = FALSE
    /\ in_paragraph = FALSE
    /\ html_lines = <<>>
    /\ raised = FALSE
    /\ origin = <<>>

\* heading stage: one iteration of `for line in lines`
HeadingIter ==
    /\ stage = "heading" /\ spc = "loop" /\ idx < Len(lines)
    /\ LET r == HeadingBody([html_lines |-> html_lines, origin |-> origin],
                            lines[idx + 1], idx + 1)
       IN  /\ html_lines' = r.html_lines
           /\ origin' = r.origin
    /\ idx' = idx + 1
    /\ UNCHANGED <<mainVars, lines, stage, spc, in_list, in_paragraph, raised>>

\* heading stage: the loop is over, return converted_lines
HeadingReturn ==
    /\ stage = "heading" /\ spc = "loop" /\ idx = Len(lines)
    /\ spc' = "returned"
    /\ UNCHANGED <<mainVars, lines, stage, idx, in_list, in_paragraph,
                   html_lines, raised, origin>>

\* the local state of a list stage, as a record
ListState == [in_list |-> in_list, html_lines |-> html_lines, origin |-> origin]

SetListState(r) ==
    /\ in_list' = r.in_list
    /\ html_lines' = r.html_lines
    /\ origin' = r.origin

\* unordered-list stage: one iteration of `for line in lines`
UlIter ==
    /\ stage = "ul" /\ spc = "loop" /\ idx < Len(lines)
    /\ SetListState(UlBody(ListState, lines[idx + 1], idx + 1))
    /\ idx' = idx + 1
    /\ UNCHANGED <<mainVars, lines, stage, spc, in_paragraph, raised>>

\* unordered-list stage: the loop is over, close an open list and return
UlReturn ==
    /\ stage = "ul" /\ spc = "loop" /\ idx = Len(lines)
    /\ SetListState(UlEnd(ListState))
    /\ spc' = "returned"
    /\ UNCHANGED <<mainVars, lines, stage, idx, in_paragraph, raised>>

\* ordered-list stage: one iteration of `for line in lines`
OlIter ==
    /\ stage = "ol" /\ spc = "loop" /\ idx < Len(lines)
    /\ SetListState(OlBody(ListState, lines[idx + 1], idx + 1))
    /\ idx' = idx + 1
    /\ UNCHANGED <<mainVars, lines, stage, spc, in_paragraph, raised>>

\* ordered-list stage: the loop is over, close an open list and return
OlReturn ==
    /\ stage = "ol" /\ spc = "loop" /\ idx = Len(lines)
    /\ SetListState(OlEnd(ListState))
    /\ spc' = "returned"
    /\ UNCHANGED <<mainVars, lines, stage, idx, in_paragraph, raised>>

\* the local state of the paragraph stage, as a record
ParaState ==
    [in_paragraph |-> in_paragraph, html_lines |-> html_lines,
     origin |-> origin, raised |-> raised]

SetParaState(r) ==
    /\ in_paragraph' = r.in_paragraph
    /\ html_lines' = r.html_lines
    /\ origin' = r.origin
    /\ raised' = r.raised

\* paragraph stage: one iteration of `for line in lines`
ParaIter ==
    /\ stage = "paragraph" /\ spc = "loop" /\ idx < Len(lines)
    /\ LET r == ParaBody(ParaState, lines[idx + 1], idx + 1)
       IN  /\ SetParaState(r)
           /\ spc' = IF r.raised THEN "raised" ELSE "loop"
    /\ idx' = idx + 1
    /\ UNCHANGED <<mainVars, lines, stage, in_list>>

\* paragraph stage: the loop is over, close an open paragraph and return
ParaReturn ==
    /\ stage = "paragraph" /\ spc = "loop" /\ idx = Len(lines)
    /\ LET r == ParaEnd(ParaState)
       IN  /\ SetParaState(r)
           /\ spc' = IF r.raised THEN "raised" ELSE "returned"
    /\ UNCHANGED <<mainVars, lines, stage, idx, in_list>>

NextStage ==
    \/ HeadingIter \/ HeadingReturn
    \/ UlIter \/ UlReturn
    \/ OlIter \/ OlReturn
    \/ ParaIter \/ ParaReturn

SpecStage == InitStage /\ [][NextStage]_vars

---------------------------------------------------------------------------
(* Spec: one run of main() *)

\* the script name, sys.argv[0]
ScriptName == "./markdown2html.py"
\* a source path that exists, one that does not, and the destination path
SourcePath == "README.md"
MissingPath == "missing.md"
DestPath == "README.html"
Paths == {SourcePath, MissingPath, DestPath}

\* the positional arguments: the first is a source path, the second the
\* destination path, any further one is ignored by main()
ArgLists ==
    UNION { { [k \in 1..n |-> IF k = 1 THEN src
                              ELSE IF k = 2 THEN DestPath ELSE "extra"]
              : src \in {SourcePath, MissingPath} } : n \in 0..MaxArgs }

\* file.writelines(ls): the lines, concatenated
RECURSIVE writelines(_)
writelines(ls) == IF ls = <<>> THEN <<>> ELSE Head(ls) \o writelines(Tail(ls))

\* the length of the first line of a non-empty text: up to and including the
\* first "\n", the whole text when it holds none
FirstLineLen(data) ==
    IF \E k \in 1..Len(data) : data[k] = "\n"
    THEN CHOOSE k \in 1..Len(data) :
            data[k] = "\n" /\ \A m \in 1..(k - 1) : data[m] # "\n"
    ELSE Len(data)

\* file.readlines(): the text cut after each "\n", terminators kept
RECURSIVE readlines(_)
readlines(data) ==
    IF data = <<>> THEN <<>>
    ELSE LET n == FirstLineLen(data)
         IN  <<SubSeq(data, 1, n)>> \o readlines(SliceFrom(data, n))

\* the texts the source file may hold
FileContents == { writelines(ls) : ls \in Inputs }

Usage == <<"Usage: ./markdown2html.py README.md README.html">>
Missing(path) == <<"Missing", path>>
Traceback == <<"Traceback (most recent call last)">>

\* no stage function call is modelled step by step in Spec
StageIdle ==
    /\ stage = "none"
    /\ spc = "idle"
    /\ idx = 0
    /\ in_list = FALSE
    /\ in_paragraph = FALSE
    /\ html_lines = <<>>
    /\ raised = FALSE
    /\ origin = <<>>

Init ==
    /\ StageIdle
    /\ pc = "start"
    /\ sys_argv \in { <<ScriptName>> \o args : args \in ArgLists }
    /\ \E data \in FileContents :
          fs = [p \in Paths |->
                  IF p = SourcePath THEN [exists |-> TRUE, data |-> data]
                  ELSE [exists |-> FALSE, data |-> <<>>]]
    /\ markdown_file = ""
    /\ html_file = ""
    /\ lines = <<>>
    /\ converted_lines = <<>>
    /\ stderr = <<>>
    /\ status = NoStatus
    /\ ran = <<>>
    /\ opened = <<>>

\* variant of TooFewArgs that accepts exactly two positional arguments only
TooFewArgs_NotExactlyTwo(argv) == Len(argv) # 3

\* the test `len(sys.argv) < 3`
TooFewArgs(argv) == Len(argv) < 3

\* if len(sys.argv) < 3: print usage to stderr; exit(1)
UsageExit ==
    /\ pc = "start"
    /\ TooFewArgs(sys_argv)
    /\ stderr' = Append(stderr, Usage)
    /\ status' = 1
    /\ pc' = "exited"
    /\ UNCHANGED <<sys_argv, fs, markdown_file, html_file, converted_lines,
                   ran, opened, lines, stageVars>>

\* markdown_file = sys.argv[1]; html_file = sys.argv[2]
GetNames ==
    /\ pc = "start"
    /\ ~TooFewArgs(sys_argv)
    /\ markdown_file' = sys_argv[2]
    /\ html_file' = sys_argv[3]
    /\ pc' = "check_exists"
    /\ UNCHANGED <<sys_argv, fs, converted_lines, stderr, status, ran, opened,
                   lines, stageVars>>

\* variant of exists that finds every path
exists_Always(path) == TRUE

\* os.path.exists(path)
exists(path) == fs[path].exists

\* if not os.path.exists(markdown_file): print Missing ...; exit(1)
MissingExit ==
    /\ pc = "check_exists"
    /\ ~exists(markdown_file)
    /\ stderr' = Append(stderr, Missing(markdown_file))
    /\ status' = 1
    /\ pc' = "exited"
    /\ UNCHANGED <<sys_argv, fs, markdown_file, html_file, converted_lines,
                   ran, opened, lines, stageVars>>

\* with open(markdown_file, "r") as md: lines = md.readlines()
ReadFile ==
    /\ pc = "check_exists"
    /\ exists(markdown_file)
    /\ opened' = Append(opened, <<markdown_file, "r">>)
    /\ lines' = readlines(fs[markdown_file].data)
    /\ pc' = "heading"
    /\ UNCHANGED <<sys_argv, fs, markdown_file, html_file, converted_lines,
                   stderr, status, ran, stageVars>>

\* the record `ran` keeps of a stage call: its name, argument, result and the
\* origin of each line of the result
Call(name, arg, r) ==
    [name |-> name, arg |-> arg, out |-> r.html_lines, origin |-> r.origin]

\* converted_lines = convert_markdown_heading_to_html(lines)
RunHeading ==
    /\ pc = "heading"
    /\ converted_lines' = convert_markdown_heading_to_html(lines)
    /\ ran' = Append(ran, Call("heading", lines, HeadingRun(lines)))
    /\ pc' = "ul"
    /\ UNCHANGED <<sys_argv, fs, markdown_file, html_file, stderr, status,
                   opened, lines, stageVars>>

\* variant of RunUl that calls the stage with the lines as read
RunUl_FromLines ==
    /\ pc = "ul"
    /\ converted_lines' = convert_markdown_ul_list_to_html(lines)
    /\ ran' = Append(ran, Call("ul", lines, UlRun(lines)))
    /\ pc' = "ol"
    /\ UNCHANGED <<sys_argv, fs, markdown_file, html_file, stderr, status,
                   opened, lines, stageVars>>

\* converted_lines = convert_markdown_ul_list_to_html(converted_lines)
RunUl ==
    /\ pc = "ul"
    /\ converted_lines' = convert_markdown_ul_list_to_html(converted_lines)
    /\ ran' = Append(ran, Call("ul", converted_lines, UlRun(converted_lines)))
    /\ pc' = "ol"
    /\ UNCHANGED <<sys_argv, fs, markdown_file, html_file, stderr, status,
                   opened, lines, stageVars>>

\* converted_lines = convert_markdown_ol_list_to_html(converted_lines)
RunOl ==
    /\ pc = "ol"
    /\ converted_lines' = convert_markdown_ol_list_to_html(converted_lines)
    /\ ran' = Append(ran, Call("ol", converted_lines, OlRun(converted_lines)))
    /\ pc' = "paragraph"
    /\ UNCHANGED <<sys_argv, fs, markdown_file, html_file, stderr, status,
                   opened, lines, stageVars>>

\* converted_lines = convert_markdown_paragraph_to_html(converted_lines);
\* an exception raised in the call is not caught: traceback, exit status 1
RunParagraph ==
    /\ pc = "paragraph"
    /\ LET r == ParaRun(converted_lines)
       IN  IF r.raised
           THEN /\ stderr' = Append(stderr, Traceback)
                /\ status' = 1
                /\ pc' = "exited"
                /\ UNCHANGED <<converted_lines, ran>>
           ELSE /\ converted_lines' = r.html_lines
                /\ ran' = Append(ran, Call("paragraph", converted_lines, r))
                /\ pc' = "write"
                /\ UNCHANGED <<stderr, status>>
    /\ UNCHANGED <<sys_argv, fs, markdown_file, html_file, opened, lines,
                   stageVars>>

\* with open(html_file, "w") as html: html.writelines(converted_lines)
WriteFile ==
    /\ pc = "write"
    /\ opened' = Append(opened, <<html_file, "w">>)
    /\ fs' = [fs EXCEPT ![html_file] =
                [exists |-> TRUE, data |-> writelines(converted_lines)]]
    /\ pc' = "exit"
    /\ UNCHANGED <<sys_argv, markdown_file, html_file, converted_lines, stderr,
                   status, ran, lines, stageVars>>

\* exit(0)
Exit0 ==
    /\ pc = "exit"
    /\ status' = 0
    /\ pc' = "exited"
    /\ UNCHANGED <<sys_argv, fs, markdown_file, html_file, converted_lines,
                   stderr, ran, opened, lines, stageVars>>

Next ==
    \/ UsageExit \/ GetNames \/ MissingExit \/ ReadFile
    \/ RunHeading \/ RunUl \/ RunOl \/ RunParagraph
    \/ WriteFile \/ Exit0

Spec == Init /\ [][Next]_vars

---------------------------------------------------------------------------
(* Vocabulary of the claims *)

Returned(s) == stage = s /\ spc = "returned"

EndsWith(s, suffix) ==
    Len(s) >= Len(suffix)
    /\ SubSeq(s, Len(s) - Len(suffix) + 1, Len(s)) = suffix

\* the number of '#' characters a line begins with
RECURSIVE LeadingHashes(_)
LeadingHashes(line) ==
    IF line # <<>> /\ Head(line) = "#" THEN 1 + LeadingHashes(Tail(line)) ELSE 0

\* the line starts with exactly i '#' immediately followed by a space
ExactlyHashesThenSpace(line, i) ==
    /\ LeadingHashes(line) = i
    /\ Len(line) > i
    /\ line[i + 1] = " "

\* the heading levels a line matches
LevelsOf(line) == { i \in 1..6 : ExactlyHashesThenSpace(line, i) }

\* <h{i}> + trimmed remainder + </h{i}> + newline
HeadingOf(line, i) ==
    <<"<", "h", DigitChar(i), ">">>
        \o strip(SubSeq(line, i + 2, Len(line)))
        \o <<"<", "/", "h", DigitChar(i), ">", "\n">>

\* the kinds of the container markers among the origins `org`, in order
RECURSIVE MarkerKinds(_)
MarkerKinds(org) ==
    IF org = <<>> THEN <<>>
    ELSE LET rest == MarkerKinds(SubSeq(org, 1, Len(org) - 1))
             last == org[Len(org)].kind
         IN  IF last \in {"open", "close"} THEN Append(rest, last) ELSE rest

---------------------------------------------------------------------------
(* C1 *)

\* C1: the heading stage is a per-line map: the output has as many lines as
\* the input consumed, and line k of the output is <h{i}> + trimmed remainder
\* + </h{i}> + newline when input line k starts with exactly i '#' (1 <= i <= 6)
\* immediately followed by a space, and input line k itself otherwise (7 or
\* more '#', or no space after the run of '#').
C1_HeadingPerLineMap ==
    stage = "heading" =>
        /\ Len(html_lines) = idx
        /\ Returned("heading") => Len(html_lines) = Len(lines)
        /\ \A k \in 1..idx :
              /\ \A i \in LevelsOf(lines[k]) :
                    html_lines[k] = HeadingOf(lines[k], i)
              /\ LevelsOf(lines[k]) = {} => html_lines[k] = lines[k]

\* a returned call that rewrote a level-6 line and left a 7-'#' line and a
\* '#' run without a space unchanged
C1_Witness ==
    /\ Returned("heading")
    /\ \E k \in 1..Len(lines) :
          /\ lines[k] = Hashes(6) \o <<" ", "a", "\n">>
          /\ html_lines[k] = <<"<", "h", "6", ">", "a", "<", "/", "h", "6", ">", "\n">>
    /\ \E k \in 1..Len(lines) :
          /\ lines[k] \in {Hashes(7) \o <<" ", "a", "\n">>, <<"#", "a", "\n">>}
          /\ html_lines[k] = lines[k]

---------------------------------------------------------------------------
(* C2 *)

IsUlLine(line) == startswith(line, <<"-", " ">>)

\* what input line k contributes to the output of the unordered-list stage,
\* told from its neighbours: the opening marker when it starts a run, its item,
\* the closing marker when it ends a run; itself when it is no '- ' line
UlPiece(ls, k) ==
    IF IsUlLine(ls[k])
    THEN (IF k = 1 \/ ~IsUlLine(ls[k - 1]) THEN <<UL_OPEN>> ELSE <<>>)
         \o << <<" ", " ", " ", "<", "l", "i", ">">>
                 \o strip(SubSeq(ls[k], 3, Len(ls[k])))
                 \o <<"<", "/", "l", "i", ">", "\n">> >>
         \o (IF k = Len(ls) \/ ~IsUlLine(ls[k + 1]) THEN <<UL_CLOSE>> ELSE <<>>)
    ELSE <<ls[k]>>

\* the pieces of lines 1..n, concatenated
RECURSIVE UlPieces(_, _)
UlPieces(ls, n) ==
    IF n = 0 THEN <<>> ELSE UlPieces(ls, n - 1) \o UlPiece(ls, n)

UlExpected(ls) == UlPieces(ls, Len(ls))

\* C2: the unordered-list stage emits, for each maximal run of consecutive
\* '- ' lines, one '<ul>\n', one '   <li>trimmed remainder</li>\n' per line in
\* input order and one '</ul>\n', and every other line unchanged at its
\* place, so two runs separated by a non-matching line give two blocks.
C2_UlBlocks ==
    Returned("ul") => html_lines = UlExpected(lines)

\* a returned call whose input held two runs separated by one other line
C2_Witness ==
    /\ Returned("ul")
    /\ Len(lines) = 3
    /\ IsUlLine(lines[1]) /\ ~IsUlLine(lines[2]) /\ IsUlLine(lines[3])
    /\ Len(html_lines) = 7
    /\ html_lines[1] = UL_OPEN /\ html_lines[3] = UL_CLOSE
    /\ html_lines[4] = lines[2]
    /\ html_lines[5] = UL_OPEN /\ html_lines[7] = UL_CLOSE

---------------------------------------------------------------------------
(* C3 *)

\* the pattern of each stage
Matches(s, line) ==
    CASE s = "heading" -> \E i \in 1..6 : startswith(line, Hashes(i) \o <<" ">>)
      [] s = "ul" -> startswith(line, <<"-", " ">>)
      [] s = "ol" -> startswith(line, <<"*", " ">>)
      [] s = "paragraph" ->
            /\ strip(line) # <<>>
            /\ strip(line)[1] \notin {"#", "-", "*"}

\* C3: in every stage, every consumed line the stage's pattern does not match
\* is in the output exactly once, byte for byte (terminator or none included),
\* and these lines keep their input order.
C3_NonMatchingLinesPreserved ==
    stage \in Stages =>
        /\ \A j \in 1..idx :
              ~Matches(stage, lines[j]) =>
                  /\ \E k \in 1..Len(html_lines) :
                        /\ origin[k] = Org("pass", j)
                        /\ html_lines[k] = lines[j]
                  /\ Cardinality({k \in 1..Len(origin) : origin[k].src = j}) = 1
        /\ \A k1, k2 \in 1..Len(origin) :
              (k1 < k2 /\ origin[k1].src > 0 /\ origin[k2].src > 0)
                  => origin[k1].src < origin[k2].src

\* a returned call of a grouping stage that closed a block before a
\* non-matching line that has no terminator, and kept that line as it was
C3_Witness ==
    /\ stage \in {"ul", "ol", "paragraph"}
    /\ spc = "returned"
    /\ \E k \in 2..Len(html_lines) :
          /\ origin[k].kind = "pass"
          /\ origin[k - 1].kind = "close"
          /\ ~EndsWith(html_lines[k], NL)
          /\ html_lines[k] = lines[origin[k].src]

---------------------------------------------------------------------------
(* C4 *)

Indent4 == <<" ", " ", " ", " ">>
BR == <<"<", "b", "r", "/", ">">>

\* output line k is the last content line of its paragraph block
LastOfBlock(k) ==
    /\ origin[k].kind = "content"
    /\ k < Len(origin)
    /\ origin[k + 1].kind = "close"

\* output line k is a content line followed by another one of the same block
InnerOfBlock(k) ==
    /\ origin[k].kind = "content"
    /\ k < Len(origin)
    /\ origin[k + 1].kind = "content"

\* C4, as stated: in the output of the paragraph stage the last content
\* line of every block does not end with '<br/>' before its newline, and
\* every other content line of the block ends with '<br/>\n'.
C4_LastLineNeverEndsWithBr ==
    Returned("paragraph") =>
        \A k \in 1..Len(html_lines) :
            /\ LastOfBlock(k) => ~EndsWith(html_lines[k], BR_NL)
            /\ InnerOfBlock(k) => EndsWith(html_lines[k], BR_NL)

\* C4, amended: in the output of the paragraph stage every content line is
\* followed by another content line or by the closing marker; the last
\* content line of a block is four spaces + the trimmed source line + '\n'
\* (the soft break the stage appended is gone, so the line ends with '<br/>'
\* before its newline only when the trimmed source line itself does), and
\* every other content line is four spaces + the trimmed source line +
\* '<br/>\n'; whether the block was closed by a non-plain line or at the end
\* of the input.
C4_AppendedBreakStripped ==
    Returned("paragraph") =>
        \A k \in 1..Len(html_lines) :
            origin[k].kind = "content" =>
                LET text == strip(lines[origin[k].src])
                IN  /\ LastOfBlock(k) \/ InnerOfBlock(k)
                    /\ LastOfBlock(k) =>
                          /\ html_lines[k] = Indent4 \o text \o NL
                          /\ EndsWith(html_lines[k], BR_NL) <=> EndsWith(text, BR)
                    /\ InnerOfBlock(k) =>
                          html_lines[k] = Indent4 \o text \o BR_NL

\* a returned call with a two-line block closed by a non-plain line, whose
\* last source line ends with '<br/>'
C4_Witness ==
    /\ Returned("paragraph")
    /\ \E k \in 1..Len(html_lines) :
          /\ InnerOfBlock(k) /\ LastOfBlock(k + 1)
          /\ k + 3 <= Len(origin) /\ origin[k + 3].kind = "pass"
          /\ EndsWith(html_lines[k], BR_NL)
          /\ html_lines[k + 1] = Indent4 \o <<"a">> \o BR_NL

---------------------------------------------------------------------------
(* C5 *)

\* a sequence of marker kinds alternates open, close, open, ..., from an open
Alternates(m) ==
    \A k \in 1..Len(m) : m[k] = (IF k % 2 = 1 THEN "open" ELSE "close")

\* C5: in each list stage the container markers the stage emits alternate
\* open, close, open, close, starting with an open; inside the loop a block
\* is open exactly while the flag is set; and when the call returns the last
\* marker is a close and there is one pair of markers per run of matching
\* lines, so a block open at the end of the input is closed (with or without
\* trailing blank lines).  The markers are the stage's own tag lines.
C5_MarkersAlternate ==
    stage \in {"ul", "ol"} =>
        LET m == MarkerKinds(origin)
        IN  /\ Alternates(m)
            /\ spc = "loop" => (in_list <=> (Len(m) % 2 = 1))
            /\ spc = "returned" => Len(m) % 2 = 0
            /\ spc = "returned" => 2 * Cardinality({j \in 1..Len(lines) :
                    Matches(stage, lines[j])
                    /\ (j = 1 \/ ~Matches(stage, lines[j - 1]))}) = Len(m)
            /\ \A k \in 1..Len(origin) :
                  /\ origin[k].kind = "open" =>
                        html_lines[k] = (IF stage = "ul" THEN UL_OPEN ELSE OL_OPEN)
                  /\ origin[k].kind = "close" =>
                        html_lines[k] = (IF stage = "ul" THEN UL_CLOSE ELSE OL_CLOSE)

\* a returned call of a list stage whose input ended inside a block, after an
\* earlier block that a non-matching line had closed
C5_Witness ==
    /\ stage \in {"ul", "ol"}
    /\ spc = "returned"
    /\ Len(lines) = 3
    /\ Matches(stage, lines[3])
    /\ MarkerKinds(origin) = <<"open", "close", "open", "close">>
    /\ origin[Len(origin)].kind = "close"

---------------------------------------------------------------------------
(* C8 *)

\* plain: the trimmed form is non-empty and starts with none of '#', '-', '*'
PlainLine(line) ==
    /\ strip(line) # <<>>
    /\ strip(line)[1] \notin {"#", "-", "*"}

\* what input line k contributes to the output of the paragraph stage, told
\* from its neighbours: the opening marker when it starts a run of plain
\* lines, four spaces + its trimmed content (+ the soft break unless it ends
\* the run), the closing marker when it ends the run; itself when not plain
ParaPiece(ls, k) ==
    IF PlainLine(ls[k])
    THEN LET last == k = Len(ls) \/ ~PlainLine(ls[k + 1])
         IN  (IF k = 1 \/ ~PlainLine(ls[k - 1]) THEN <<P_OPEN>> ELSE <<>>)
             \o << Indent4 \o strip(ls[k]) \o (IF last THEN NL ELSE BR_NL) >>
             \o (IF last THEN <<P_CLOSE>> ELSE <<>>)
    ELSE <<ls[k]>>

\* the pieces of lines 1..n, concatenated
RECURSIVE ParaPieces(_, _)
ParaPieces(ls, n) ==
    IF n = 0 THEN <<>> ELSE ParaPieces(ls, n - 1) \o ParaPiece(ls, n)

ParaExpected(ls) == ParaPieces(ls, Len(ls))

\* C8: the paragraph stage treats a line as plain iff its trimmed form is
\* non-empty and does not start with '#', '-' or '*', and emits for each
\* maximal run of plain lines one '<p>\n', one line of four spaces + trimmed
\* content per line in input order and one '</p>\n'; every other line is
\* emitted unchanged, so a blank or marker-prefixed line between two plain
\* lines gives two blocks with that line between them.
C8_ParagraphBlocks ==
    stage = "paragraph" =>
        /\ \A k \in 1..Len(origin) :
              origin[k].src > 0 =>
                  (origin[k].kind = "content" <=> PlainLine(lines[origin[k].src]))
        /\ spc = "returned" => html_lines = ParaExpected(lines)

\* a returned call whose input is plain, non-plain, plain: two blocks
C8_Witness ==
    /\ Returned("paragraph")
    /\ Len(lines) = 3
    /\ PlainLine(lines[1]) /\ ~PlainLine(lines[2]) /\ PlainLine(lines[3])
    /\ Len(html_lines) = 7
    /\ html_lines[1] = P_OPEN /\ html_lines[3] = P_CLOSE
    /\ html_lines[4] = lines[2]
    /\ html_lines[5] = P_OPEN /\ html_lines[7] = P_CLOSE

---------------------------------------------------------------------------
(* C9 *)

\* the line with a leading '* ' marker turned into '- ' and the reverse
SwapMarker(line) ==
    IF startswith(line, <<"*", " ">>) THEN <<"-", " ">> \o SliceFrom(line, 2)
    ELSE IF startswith(line, <<"-", " ">>) THEN <<"*", " ">> \o SliceFrom(line, 2)
    ELSE line

SwapMarkers(ls) == [k \in 1..Len(ls) |-> SwapMarker(ls[k])]

\* output line `o` of the ordered stage is output line `u` of the unordered
\* stage under the substitution of tags and marker
SameUnderSubstitution(kind, o, u) ==
    CASE kind = "open" -> o = OL_OPEN /\ u = UL_OPEN
      [] kind = "close" -> o = OL_CLOSE /\ u = UL_CLOSE
      [] kind = "item" -> o = u
      [] kind = "pass" -> u = SwapMarker(o)

\* C9: the ordered-list stage is the unordered-list stage under the
\* substitution of '* ' for '- ' and of <ol>, </ol> for <ul>, </ul>: after
\* any number of lines, and on return, it has the flag and the output (line
\* for line, up to the substitution) that the unordered stage has on the
\* input with the markers substituted.
C9_OlIsUlUnderSubstitution ==
    stage = "ol" =>
        LET u == IF spc = "returned" THEN UlRun(SwapMarkers(lines))
                 ELSE UlLoop(SwapMarkers(lines), idx)
        IN  /\ in_list = u.in_list
            /\ origin = u.origin
            /\ Len(html_lines) = Len(u.html_lines)
            /\ \A k \in 1..Len(html_lines) :
                  SameUnderSubstitution(origin[k].kind, html_lines[k],
                                        u.html_lines[k])

\* a returned call of the ordered stage on ["* a\n", "a\n"]-like input: a
\* block, closed by a non-matching line, then that line
C9_Witness ==
    /\ Returned("ol")
    /\ Len(lines) = 2
    /\ startswith(lines[1], <<"*", " ">>)
    /\ startswith(lines[2], <<"-", " ">>)
    /\ html_lines = <<OL_OPEN, ListItem(strip(SliceFrom(lines[1], 2))),
                      OL_CLOSE, lines[2]>>

---------------------------------------------------------------------------
(* C6 *)

\* the number of positional arguments
NumArgs == Len(sys_argv) - 1

\* C6, as stated: a run with any number of positional arguments other than
\* exactly two ends with the usage message on the error stream and a
\* non-zero status.
C6_UsageUnlessExactlyTwoArgs ==
    (pc = "exited" /\ NumArgs # 2) =>
        /\ Usage \in {stderr[k] : k \in 1..Len(stderr)}
        /\ status # 0

\* C6, amended: a run with fewer than two positional arguments (zero or one)
\* prints the usage message to the error stream and ends with status 1,
\* having done nothing else; a run with two or more never prints the usage
\* message: the arguments after the second are ignored, the first two are
\* taken as source and destination.
C6_UsageWhenFewerThanTwoArgs ==
    /\ (pc = "exited" /\ NumArgs < 2) =>
          /\ stderr = <<Usage>>
          /\ status = 1
          /\ opened = <<>> /\ ran = <<>>
    /\ (pc # "start" /\ NumArgs >= 2) =>
          /\ Usage \notin {stderr[k] : k \in 1..Len(stderr)}
          /\ markdown_file = sys_argv[2]
          /\ html_file = sys_argv[3]
    /\ (pc = "start") => stderr = <<>> /\ status = NoStatus

\* a run with one argument that ended with the usage message and status 1
C6_Witness ==
    /\ pc = "exited"
    /\ NumArgs = 1
    /\ stderr = <<Usage>>
    /\ status = 1

---------------------------------------------------------------------------
(* C10 *)

\* some open() call asked for writing
OpenedForWriting == \E k \in 1..Len(opened) : opened[k][2] = "w"

\* C10: a run with zero or one argument, or with a source path that does
\* not exist, ends with status 1; and whenever main ends with status 1 it has
\* written a message to the error stream (the one naming the source path
\* when the source is missing), no stage has run, the destination was never
\* opened for writing and no output file exists.
C10_Status1MeansNothingDone ==
    /\ (pc = "exited" /\ (NumArgs < 2 \/ ~fs[sys_argv[2]].exists)) => status = 1
    /\ (pc = "exited" /\ status = 1) =>
          /\ stderr # <<>>
          /\ NumArgs >= 2 => stderr = <<<<"Missing", sys_argv[2]>>>>
          /\ ran = <<>>
          /\ ~OpenedForWriting
          /\ \A p \in Paths \ {SourcePath} : ~fs[p].exists
          /\ NumArgs < 2 \/ ~fs[sys_argv[2]].exists

\* a run on a source path that does not exist, ended with status 1 and the
\* message naming that path
C10_Witness ==
    /\ pc = "exited"
    /\ status = 1
    /\ NumArgs = 2
    /\ sys_argv[2] = MissingPath
    /\ stderr = <<<<"Missing", MissingPath>>>>

---------------------------------------------------------------------------
(* C7 *)

\* all four stages have returned
PipelineDone == Len(ran) = 4

\* line j of the output of stage call n (1 heading, 2 unordered, 3 ordered)
\* is a tag line written by one of the stages 1..n, not a line of the source
RECURSIVE IsTagLine(_, _)
IsTagLine(n, j) ==
    IF n = 0 THEN FALSE
    ELSE IF ran[n].origin[j].kind # "pass" THEN TRUE
         ELSE IsTagLine(n - 1, ran[n].origin[j].src)

\* line k of the final output is a content line inside a paragraph block:
\* a '<p>' marker before it and a '</p>' marker after it, with nothing but
\* content lines of the paragraph stage between them
InsideParagraph(k) ==
    LET out == ran[4].out
        org == ran[4].origin
    IN  \E a \in 1..(k - 1), b \in (k + 1)..Len(out) :
            /\ out[a] = P_OPEN /\ org[a].kind = "open"
            /\ out[b] = P_CLOSE /\ org[b].kind = "close"
            /\ \A c \in (a + 1)..(b - 1) : org[c].kind = "content"

---------------------------------------------------------------------------
(* SpecRerun: main() run once more, on the output of its first run *)

\* the program is started again with the destination of a successful first
\* run as its source (and as its destination): a new process, whose streams
\* and locals are fresh; the file system and the history of stage calls stay
Rerun ==
    /\ pc = "exited" /\ status = 0 /\ Len(ran) = 4
    /\ sys_argv' = <<ScriptName, html_file, html_file>>
    /\ pc' = "start"
    /\ status' = NoStatus
    /\ markdown_file' = ""
    /\ html_file' = ""
    /\ lines' = <<>>
    /\ converted_lines' = <<>>
    /\ stderr' = <<>>
    /\ opened' = <<>>
    /\ UNCHANGED <<fs, ran, stageVars>>

NextRerun == Next \/ Rerun

SpecRerun == Init /\ [][NextRerun]_vars

---------------------------------------------------------------------------
(* C11 *)

\* the run in progress is the second one: its source is the first output
SecondRun == Len(sys_argv) >= 2 /\ sys_argv[2] = DestPath

\* the index, in the lines read by the second run, of the line that line j of
\* the output of stage call n (5 heading, 6 unordered, 7 ordered) carries
\* unchanged; 0 when a stage of the second run wrote that line
RECURSIVE ReadIndex(_, _)
ReadIndex(n, j) ==
    IF n = 4 THEN j
    ELSE IF ran[n].origin[j].kind = "pass"
         THEN ReadIndex(n - 1, ran[n].origin[j].src)
         ELSE 0

\* line k of the output of the paragraph call n is a content line inside a
\* paragraph block of that call
InsideParagraphOf(n, k) ==
    LET out == ran[n].out
        org == ran[n].origin
    IN  \E a \in 1..(k - 1), b \in (k + 1)..Len(out) :
            /\ out[a] = P_OPEN /\ org[a].kind = "open"
            /\ out[b] = P_CLOSE /\ org[b].kind = "close"
            /\ \A c \in (a + 1)..(b - 1) : org[c].kind = "content"

\* C11: the pipeline run on its own output never fails (no message, no
\* status 1, and it ends with status 0), and every line the paragraph stage
\* of the first run emitted (opening marker, content line, closing marker)
\* is read back as it was written, is plain on the second pass and is
\* emitted by the second paragraph stage as content inside a paragraph
\* block, neither dropped nor passed through.
C11_RerunRewrapsParagraphLines ==
    SecondRun =>
        /\ status \in {NoStatus, 0}
        /\ stderr = <<>>
        /\ pc = "exited" => status = 0 /\ Len(ran) = 8
        /\ Len(ran) >= 5 => ran[5].arg = readlines(writelines(ran[4].out))
        /\ Len(ran) = 8 =>
              \A k \in 1..Len(ran[4].out) :
                  ran[4].origin[k].kind \in {"open", "content", "close"} =>
                      /\ ran[5].arg[k] = ran[4].out[k]
                      /\ PlainLine(ran[4].out[k])
                      /\ \E m \in 1..Len(ran[8].out) :
                            /\ ran[8].origin[m].kind = "content"
                            /\ ReadIndex(7, ran[8].origin[m].src) = k
                            /\ ran[8].out[m] \in
                                  { Indent4 \o strip(ran[4].out[k]) \o NL,
                                    Indent4 \o strip(ran[4].out[k]) \o BR_NL }
                            /\ InsideParagraphOf(8, m)

\* a second run that ended with status 0 on a first output holding a
\* paragraph of two content lines
C11_Witness ==
    /\ SecondRun
    /\ pc = "exited" /\ status = 0
    /\ Len(ran) = 8
    /\ \E k \in 1..(Len(ran[4].out) - 1) :
          /\ ran[4].origin[k].kind = "content"
          /\ ran[4].origin[k + 1].kind = "content"
    /\ Len(ran[8].out) > Len(ran[4].out)

---------------------------------------------------------------------------
(* C12 *)

\* C12: no line of the output of the unordered-list stage starts with '- ',
\* the ordered-list stage is called with exactly that output, and every
\* container marker and list item the unordered stage emitted passes through
\* the ordered stage unchanged, also when the item's text begins with '* '.
C12_UlOutputPassesOl ==
    /\ Len(ran) >= 2 =>
          \A j \in 1..Len(ran[2].out) :
              ~startswith(ran[2].out[j], <<"-", " ">>)
    /\ Len(ran) >= 3 =>
          /\ ran[2].name = "ul" /\ ran[3].name = "ol"
          /\ ran[3].arg = ran[2].out
          /\ \A j \in 1..Len(ran[2].out) :
                ran[2].origin[j].kind \in {"open", "item", "close"} =>
                    \E k \in 1..Len(ran[3].out) :
                        /\ ran[3].origin[k] = Org("pass", j)
                        /\ ran[3].out[k] = ran[2].out[j]

\* the ordered stage has returned on an unordered list whose item text
\* begins with '* '
C12_Witness ==
    /\ Len(ran) >= 3
    /\ \E j \in 1..Len(ran[2].out) :
          /\ ran[2].origin[j].kind = "item"
          /\ ran[2].out[j] = ListItem(<<"*", " ", "a">>)
          /\ \E k \in 1..Len(ran[3].out) : ran[3].out[k] = ran[2].out[j]

---------------------------------------------------------------------------
(* SpecFair: main() keeps running: the program is one synchronous thread, *)
(* so a statement that can execute does execute                            *)

\* longest source file of the runs followed to their end
MaxFairLines == 1

\* the initial states of Spec whose source file has at most MaxFairLines lines
InitFair ==
    /\ Init
    /\ fs[SourcePath].data \in
          { writelines(ls) : ls \in SeqsUpTo(CoreLines, MaxFairLines) }

SpecFair == InitFair /\ [][Next]_vars /\ WF_vars(Next)

---------------------------------------------------------------------------
(* C13 *)

StageOrder == <<"heading", "ul", "ol", "paragraph">>

\* the run has passed the argument check and the existence check
PassedChecks ==
    pc \in {"heading", "ul", "ol", "paragraph", "write", "exit"}
    \/ (pc = "exited" /\ status = 0)

\* what has happened so far, read from the histories: the source was read
\* whole, once, before any stage; the stages that have run are a prefix of
\* heading, ul, ol, paragraph, each called once with the whole output of the
\* one before; the destination was opened for writing once, after all four,
\* and holds the whole final output; status 0 comes after the write
EventsInOrder ==
    PassedChecks =>
        /\ Len(opened) >= 1 /\ opened[1] = <<markdown_file, "r">>
        /\ \A k \in 1..Len(opened) : k >= 2 => opened[k] = <<html_file, "w">>
        /\ Len(opened) <= 2
        /\ Len(ran) <= 4
        /\ \A n \in 1..Len(ran) :
              /\ ran[n].name = StageOrder[n]
              /\ ran[n].arg = (IF n = 1 THEN lines ELSE ran[n - 1].out)
        /\ Len(ran) >= 1 => converted_lines = ran[Len(ran)].out
        /\ Len(ran) = (CASE pc = "heading" -> 0 [] pc = "ul" -> 1
                         [] pc = "ol" -> 2 [] pc = "paragraph" -> 3
                         [] OTHER -> 4)
        /\ Len(opened) = 2 <=> pc \in {"exit", "exited"}
        /\ Len(opened) = 2 =>
              /\ Len(ran) = 4
              /\ fs[html_file] =
                    [exists |-> TRUE, data |-> writelines(ran[4].out)]
        /\ status = 0 <=> pc = "exited"
        /\ status \in {NoStatus, 0}
        /\ stderr = <<>>

\* C13: in every run that passes both checks the source is read whole, then
\* the heading, unordered-list, ordered-list and paragraph stages run once
\* each in that order, each on the whole output of the one before, then the
\* destination is written, then the run exits with status 0; the
\* destination is opened for writing only after all four stages, and the
\* run does reach exit status 0.
C13_StagesInOrderThenExit0 ==
    /\ []EventsInOrder
    /\ [](PassedChecks => <>(pc = "exited" /\ status = 0))

\* a run that went through the whole sequence and exited with status 0
C13_Witness ==
    /\ pc = "exited" /\ status = 0
    /\ opened = << <<SourcePath, "r">>, <<DestPath, "w">> >>
    /\ Len(ran) = 4
    /\ \A n \in 1..4 : ran[n].name = StageOrder[n]
    /\ Len(ran[4].out) > Len(lines)

---------------------------------------------------------------------------
(* C14 *)

\* the value the stage function of the running call returns on `lines`
StageValue ==
    CASE stage = "heading" -> convert_markdown_heading_to_html(lines)
      [] stage = "ul" -> convert_markdown_ul_list_to_html(lines)
      [] stage = "ol" -> convert_markdown_ol_list_to_html(lines)
      [] stage = "paragraph" -> convert_markdown_paragraph_to_html(lines)

\* the call raises nothing, its loop index stays within the input, it can
\* take a step until it has returned, and what it returns is one output line
\* per origin entry, the value of the stage function
CallIsTotal ==
    /\ spc \in {"loop", "returned"}
    /\ ~raised
    /\ idx \in 0..Len(lines)
    /\ spc = "loop" => ENABLED NextStage
    /\ spc = "returned" =>
          /\ idx = Len(lines)
          /\ html_lines = StageValue
          /\ Len(origin) = Len(html_lines)

\* a paragraph is open, so the next non-plain line or the end of the input
\* closes it: the buffer is non-empty and its last element is the content
\* line this call emitted for an input line, soft break included
CloseFindsContentLine ==
    LET n == Len(html_lines)
    IN  /\ n >= 1
        /\ origin[n].kind = "content"
        /\ origin[n].src \in 1..idx
        /\ html_lines[n] = ParagraphLine(strip(lines[origin[n].src]))
        /\ EndsWith(html_lines[n], BR_NL)

\* closing marker k follows the content line it stripped the soft break from
CloseStrippedContentLine(k) ==
    /\ k >= 2
    /\ origin[k - 1].kind = "content"
    /\ html_lines[k - 1] = Indent4 \o strip(lines[origin[k - 1].src]) \o NL

\* C14: every stage call raises nothing and returns the value of its stage
\* function on every input, the empty list, empty lines and an unterminated
\* last line included; whenever the paragraph stage is about to close a
\* paragraph the buffer is non-empty and ends with a content line of this
\* call that ends with '<br/>\n'; a close alters that line only, and every
\* line passed through is the input line unaltered.
C14_StagesTotalAndCloseSafe ==
    stage \in Stages =>
        /\ CallIsTotal
        /\ (stage = "paragraph" /\ spc = "loop" /\ in_paragraph)
              => CloseFindsContentLine
        /\ stage = "paragraph" =>
              \A k \in 1..Len(origin) :
                 /\ origin[k].kind = "close" => CloseStrippedContentLine(k)
                 /\ origin[k].kind = "pass" =>
                       html_lines[k] = lines[origin[k].src]

\* the paragraph stage has returned on an empty line followed by an
\* unterminated plain line, whose paragraph the end of the input closed
C14_Witness ==
    /\ Returned("paragraph")
    /\ lines = << <<>>, <<" ", "a">> >>
    /\ html_lines = << <<>>, P_OPEN, Indent4 \o <<"a", "\n">>, P_CLOSE >>

---------------------------------------------------------------------------
(* C15 *)

GroupingStages == {"ul", "ol", "paragraph"}

\* the state flag of the running grouping stage
Flag == IF stage = "paragraph" THEN in_paragraph ELSE in_list

\* the origin kind of the lines the running stage emits inside its blocks
BlockLineKind == IF stage = "paragraph" THEN "content" ELSE "item"

\* the last line of the buffer is an item or content line of the running call
LastIsBlockLine ==
    /\ Len(origin) >= 1
    /\ origin[Len(origin)].kind = BlockLineKind
    /\ origin[Len(origin)].src \in 1..idx

\* C15: in the unordered-list, ordered-list and paragraph stages, after each
\* prefix of the input has been processed the flag is true iff the last line
\* of the buffer is an item or content line emitted by this call; every
\* opening marker is immediately followed by such a line, and between two
\* opening markers there is a closing marker.
C15_FlagTracksLastLine ==
    stage \in GroupingStages =>
        /\ spc = "loop" => (Flag <=> LastIsBlockLine)
        /\ \A k \in 1..Len(origin) :
              origin[k].kind = "open" =>
                 /\ k < Len(origin)
                 /\ origin[k + 1].kind = BlockLineKind
                 /\ \A m \in (k + 1)..Len(origin) :
                       origin[m].kind = "open" =>
                          \E c \in (k + 1)..(m - 1) : origin[c].kind = "close"

\* three lines have been processed: a block, a line that closed it, and a
\* second block that is still open
C15_Witness ==
    /\ stage \in GroupingStages
    /\ spc = "loop" /\ idx = 3
    /\ Flag
    /\ Len(origin) = 6
    /\ origin[1].kind = "open" /\ origin[3].kind = "close"
    /\ origin[4].kind = "pass" /\ origin[5].kind = "open"
    /\ origin[6].kind = BlockLineKind

---------------------------------------------------------------------------
(* C16 *)

\* the ordered-list stage applied after the unordered-list stage
OlAfterUl(ls) ==
    convert_markdown_ol_list_to_html(convert_markdown_ul_list_to_html(ls))

\* the unordered-list stage applied after the ordered-list stage
UlAfterOl(ls) ==
    convert_markdown_ul_list_to_html(convert_markdown_ol_list_to_html(ls))

\* C16: the unordered-list and ordered-list stages commute: the ordered
\* stage on what the unordered stage returned gives the same lines as the
\* unordered stage on what the ordered stage returns for the same input,
\* and the same the other way round.
C16_ListStagesCommute ==
    /\ Returned("ul") =>
          convert_markdown_ol_list_to_html(html_lines) = UlAfterOl(lines)
    /\ Returned("ol") =>
          convert_markdown_ul_list_to_html(html_lines) = OlAfterUl(lines)

\* the unordered stage has returned on lines of both list kinds, and the
\* ordered stage finds its own list in that output
C16_Witness ==
    /\ Returned("ul")
    /\ lines = << <<"-", " ", "a", "\n">>, <<"*", " ", "a", "\n">>,
                  <<"-", " ", "a", "\n">> >>
    /\ Len(html_lines) = 7
    /\ Len(convert_markdown_ol_list_to_html(html_lines)) = 9

---------------------------------------------------------------------------
(* C17 *)

\* every order in which the six levels can be tested
LevelOrders == Permutations(1..MaxLevel)

\* the levels whose test the line passes
PassingLevels(line) == { i \in 1..MaxLevel : HeadingTest(line, i) }

\* what the outer loop appends for `line` when the levels are tested in `order`
HeadingLineIn(line, order) ==
    LET i == HeadingLevel(line, order)
    IN  IF i = 0 THEN line
        ELSE HeadingElement(i, strip(SliceFrom(line, i + 1)))

\* the levels tested from 1 up to 6
AscendingOrder == [k \in 1..MaxLevel |-> k]

\* C17: every line the heading stage has processed passes the test of at
\* most one level in 1..6, and testing the levels in ascending order
\* instead of descending chooses the same level and gives the line the
\* stage appended; on a call with a single line, whatever it is, each of
\* the 720 orders of the six levels chooses that level and gives that line.
C17_LevelOrderIrrelevant ==
    stage = "heading" =>
        /\ \A k \in 1..idx :
              /\ Cardinality(PassingLevels(lines[k])) <= 1
              /\ HeadingLevel(lines[k], AscendingOrder)
                    = HeadingLevel(lines[k], LevelOrder)
              /\ HeadingLineIn(lines[k], AscendingOrder) = html_lines[k]
        /\ (Len(lines) = 1 /\ idx = 1) =>
              \A order \in LevelOrders :
                 /\ HeadingLevel(lines[1], order)
                       = HeadingLevel(lines[1], LevelOrder)
                 /\ HeadingLineIn(lines[1], order) = html_lines[1]

\* the stage has processed '### a': levels 1 and 2 begin the line with
\* their '#' run but only level 3 passes, first or last in the order
C17_Witness ==
    /\ Returned("heading")
    /\ lines = << Hashes(3) \o <<" ", "a", "\n">> >>
    /\ PassingLevels(lines[1]) = {3}
    /\ startswith(lines[1], Hashes(1)) /\ startswith(lines[1], Hashes(2))
    /\ html_lines = << <<"<", "h", "3", ">", "a", "<", "/", "h", "3", ">", "\n">> >>
    /\ \E order \in LevelOrders :
          order[1] = 1 /\ HeadingLevel(lines[1], order) = 3

===========================================================================
